---- MODULE Spec2Model ----
(***************************************************************************)
(* AnonVerse: an encrypted group chat.  The ledger (the AnonVerse          *)
(* contract) keeps groups, memberships and messages; every group owns an   *)
(* FHE-shielded secret whose access control list is extended on creation   *)
(* and on join; members recover the secret off-ledger and use it as the    *)
(* key of a XOR stream cipher over the message bytes.                      *)
(*                                                                         *)
(* Conventions.  A Solidity/JS string is a sequence of one-character       *)
(* strings, so that its length can be taken.  Group ids are 0-based as in  *)
(* the contract; the sequence `groups` is 1-based, so group g is           *)
(* groups[g + 1].  A uint32 is a pair <<hi, lo>> of 16-bit halves, because *)
(* the checker's integers stop at 2^31 - 1.                                *)
(***************************************************************************)
EXTENDS Integers, Sequences, FiniteSets, TLC

(***************************************************************************)
(* Bounds of the model.                                                    *)
(***************************************************************************)
MaxGroups == 2
MaxTime == 1
MaxEvents == 3
MaxRecoveryEvents == 2
MaxRequests == 2
MaxReadEvents == 2
MaxClientEvents == 2
MaxLog == 2

(***************************************************************************)
(* Inputs.                                                                 *)
(***************************************************************************)
Users == {"alice", "bob"}
\* address(this): the ledger's own authority on the ACL
This == "AnonVerse"
Names == {<<>>, <<"A">>}
CipherTexts == {<<>>, <<"6", "8">>}
GroupIds == 0 .. MaxGroups
\* raw outputs of FHE.randEuint32(): 1000000 and 2^32 - 1
RandSamples == {<<15, 16960>>, <<65535, 65535>>}

NoGroup == -1
NoText == <<"?">>
NoKey == <<-1, -1>>

(***************************************************************************)
(* uint32 arithmetic on <<hi, lo>> pairs.                                  *)
(***************************************************************************)
SECRET_BOUND == 1000000

ToU32(n) == <<n \div 65536, n % 65536>>

\* v % m for a uint32 v and a modulus m < 2^23, without leaving 31 bits
U32Rem(v, m) ==
    LET a == ((v[1] % m) * 256) % m
        b == (a * 256) % m
    IN  ToU32((b + (v[2] % m)) % m)

\* v < n for a uint32 v and an integer n <= 2^20
U32Less(v, n) == v[1] < 16 /\ v[1] * 65536 + v[2] < n

(***************************************************************************)
(* The message cipher (utils/crypto).  A JS string is the sequence of its  *)
(* UTF-16 code units; a byte array is a sequence of numbers 0 .. 255; the  *)
(* hex text is a sequence of one-character strings.                        *)
(***************************************************************************)
MaxLen == 3
MaxPending == 2
MaxDisplayEvents == 3

\* code units tried: "A", e-acute (2 bytes), euro (3 bytes), U+FEFF, and the
\* two halves D83D DE00 of U+1F600 (4 bytes)
CodeUnits == {65, 233, 8364, 65279, 55357, 56832}
\* keys tried: 0, 123456, 999999 and 2^32 - 1
KeySamples == {<<0, 0>>, <<1, 57920>>, <<15, 16959>>, <<65535, 65535>>}

RECURSIVE SeqsUpTo(_, _)
SeqsUpTo(S, n) ==
    IF n = 0 THEN {<<>>}
    ELSE LET shorter == SeqsUpTo(S, n - 1)
         IN  shorter \cup {Append(q, x) : q \in {r \in shorter : Len(r) = n - 1}, x \in S}

Messages == SeqsUpTo(CodeUnits, MaxLen)

RECURSIVE Flatten(_)
Flatten(ss) == IF ss = <<>> THEN <<>> ELSE Head(ss) \o Flatten(Tail(ss))

\* a ^ b on non-negative integers
RECURSIVE BitXor(_, _)
BitXor(a, b) ==
    IF a = 0 THEN b
    ELSE IF b = 0 THEN a
    ELSE 2 * BitXor(a \div 2, b \div 2) + (((a % 2) + (b % 2)) % 2)

REPLACEMENT == 65533
BOM == 65279

IsHigh(u) == u >= 55296 /\ u <= 56319
IsLow(u) == u >= 56320 /\ u <= 57343

\* the scalar values of a JS string: a surrogate pair is one code point, a
\* lone surrogate becomes U+FFFD (TextEncoder's USVString conversion)
RECURSIVE toScalars(_)
toScalars(units) ==
    IF units = <<>> THEN <<>>
    ELSE IF IsHigh(units[1]) /\ Len(units) >= 2 /\ IsLow(units[2])
    THEN <<65536 + (units[1] - 55296) * 1024 + (units[2] - 56320)>>
            \o toScalars(Tail(Tail(units)))
    ELSE IF IsHigh(units[1]) \/ IsLow(units[1])
    THEN <<REPLACEMENT>> \o toScalars(Tail(units))
    ELSE <<units[1]>> \o toScalars(Tail(units))

utf8Bytes(cp) ==
    IF cp < 128 THEN <<cp>>
    ELSE IF cp < 2048 THEN <<192 + (cp \div 64), 128 + (cp % 64)>>
    ELSE IF cp < 65536
    THEN <<224 + (cp \div 4096), 128 + ((cp \div 64) % 64), 128 + (cp % 64)>>
    ELSE <<240 + (cp \div 262144), 128 + ((cp \div 4096) % 64),
           128 + ((cp \div 64) % 64), 128 + (cp % 64)>>

\* encoder.encode(message)
TextEncode(message) ==
    LET scalars == toScalars(message)
    IN  Flatten([i \in 1 .. Len(scalars) |-> utf8Bytes(scalars[i])])

\* The UTF-8 decoder of TextDecoder from byte i on: cp is the code point
\* under construction, needed the continuation bytes still due, lower and
\* upper the range the next continuation byte must lie in.  A malformed
\* sequence yields U+FFFD, and the offending byte is read again.
RECURSIVE utf8Decode(_, _, _, _, _, _)
utf8Decode(bytes, i, cp, needed, lower, upper) ==
    IF i > Len(bytes) THEN (IF needed # 0 THEN <<REPLACEMENT>> ELSE <<>>)
    ELSE LET b == bytes[i]
         IN  IF needed = 0
             THEN IF b <= 127
                  THEN <<b>> \o utf8Decode(bytes, i + 1, 0, 0, 128, 191)
                  ELSE IF b >= 194 /\ b <= 223
                  THEN utf8Decode(bytes, i + 1, b - 192, 1, 128, 191)
                  ELSE IF b >= 224 /\ b <= 239
                  THEN utf8Decode(bytes, i + 1, b - 224, 2,
                                  IF b = 224 THEN 160 ELSE 128,
                                  IF b = 237 THEN 159 ELSE 191)
                  ELSE IF b >= 240 /\ b <= 244
                  THEN utf8Decode(bytes, i + 1, b - 240, 3,
                                  IF b = 240 THEN 144 ELSE 128,
                                  IF b = 244 THEN 143 ELSE 191)
                  ELSE <<REPLACEMENT>> \o utf8Decode(bytes, i + 1, 0, 0, 128, 191)
             ELSE IF b < lower \/ b > upper
             THEN <<REPLACEMENT>> \o utf8Decode(bytes, i, 0, 0, 128, 191)
             ELSE IF needed = 1
             THEN <<cp * 64 + (b - 128)>> \o utf8Decode(bytes, i + 1, 0, 0, 128, 191)
             ELSE utf8Decode(bytes, i + 1, cp * 64 + (b - 128), needed - 1, 128, 191)

\* the UTF-16 code units of a sequence of code points
toUnits(cps) ==
    Flatten([i \in 1 .. Len(cps) |->
        IF cps[i] >= 65536
        THEN <<55296 + ((cps[i] - 65536) \div 1024), 56320 + ((cps[i] - 65536) % 1024)>>
        ELSE <<cps[i]>>])

\* decoder.decode(bytes): new TextDecoder() is UTF-8 with ignoreBOM false, so
\* a byte order mark at the start of the input is dropped
TextDecode(bytes) ==
    LET cps == utf8Decode(bytes, 1, 0, 0, 128, 191)
    IN  toUnits(IF cps # <<>> /\ cps[1] = BOM THEN Tail(cps) ELSE cps)

\* new DataView(keyBuffer).setUint32(0, key): the four bytes, big-endian
keyBytes_LittleEndian(key) ==
    <<key[2] % 256, key[2] \div 256, key[1] % 256, key[1] \div 256>>

keyBytes(key) == <<key[1] \div 256, key[1] % 256, key[2] \div 256, key[2] % 256>>

HexDigits == <<"0", "1", "2", "3", "4", "5", "6", "7",
               "8", "9", "a", "b", "c", "d", "e", "f">>

\* val.toString(16).padStart(2, '0') for a byte
toString16(val) ==
    IF val < 16 THEN <<HexDigits[val + 1]>>
    ELSE <<HexDigits[(val \div 16) + 1], HexDigits[(val % 16) + 1]>>

padStart2_None(text) == text

padStart2(text) == IF Len(text) < 2 THEN <<"0">> \o text ELSE text

\* msgBytes.map((byte, idx) => byte ^ bytesKey[idx % bytesKey.length])
xorStream(bytes, bytesKey) ==
    [idx \in 1 .. Len(bytes) |->
        BitXor(bytes[idx], bytesKey[((idx - 1) % Len(bytesKey)) + 1])]

encodeMessage(message, key) ==
    LET msgBytes == TextEncode(message)
        bytesKey == keyBytes(key)
        encrypted == xorStream(msgBytes, bytesKey)
    IN  Flatten([i \in 1 .. Len(encrypted) |-> padStart2(toString16(encrypted[i]))])

NaN == -1
IsHexDigit(c) == \E d \in 1 .. 16 : HexDigits[d] = c
HexValue(c) == (CHOOSE d \in 1 .. 16 : HexDigits[d] = c) - 1

\* parseInt(pair, 16) for a text of one or two characters that are hex
\* digits or letters past "f": the leading hex digits, NaN when there are none
parseInt16(pair) ==
    IF ~IsHexDigit(pair[1]) THEN NaN
    ELSE IF Len(pair) = 2 /\ IsHexDigit(pair[2])
    THEN HexValue(pair[1]) * 16 + HexValue(pair[2])
    ELSE HexValue(pair[1])

\* cipherHex.match(/.{1,2}/g): the text cut in pairs, the last one maybe single
RECURSIVE matchPairs(_)
matchPairs(text) ==
    IF text = <<>> THEN <<>>
    ELSE IF Len(text) = 1 THEN <<text>>
    ELSE <<SubSeq(text, 1, 2)>> \o matchPairs(SubSeq(text, 3, Len(text)))

decodeMessage(cipherHex, key) ==
    IF cipherHex = <<>> THEN <<>>
    ELSE LET pairs == matchPairs(cipherHex)
             \* NaN ^ b is b: the bitwise operators read NaN as 0
             bytes == [i \in 1 .. Len(pairs) |->
                         IF parseInt16(pairs[i]) = NaN THEN 0 ELSE parseInt16(pairs[i])]
             bytesKey == keyBytes(key)
             decrypted == xorStream(bytes, bytesKey)
         IN  TextDecode(decrypted)

VARIABLES
    groups,         \* GroupMetadata[]: sequence of records
    groupMembers,   \* groupId -> address -> bool
    memberLists,    \* groupId -> sequence of addresses
    groupMessages,  \* groupId -> sequence of Message records
    acl,            \* FHE ACL: handle -> set of addresses allowed to decrypt
    plain,          \* FHE ciphertext store: handle -> the shielded uint32
    events,         \* the event log, in emission order
    now,            \* block.timestamp of the latest block
    call,           \* the latest operation and its outcome
    returnedIds,    \* groupId returned by each successful createGroup, in order
    requests,       \* disclosure requests in flight at the authorization service
    disclosed,      \* every plaintext the service has handed out, and to whom
    msgIn,          \* cipher run: the message, a sequence of UTF-16 code units
    keyIn,          \* cipher run: the key, a uint32
    cipherOut,      \* cipher run: encodeMessage's hex text
    clearOut,       \* cipher run: decodeMessage's text, as UTF-16 code units
    phase,          \* cipher run: "input", "encoded" or "decoded"
    read,           \* the latest call of a view function and how it ended
    address,        \* client: the connected account (useAccount)
    targetAddress,  \* client: the contract address entered, NoAddress if invalid
    selectedGroupId, \* client: the group shown, NoGroup for null
    decryptedKeys,  \* client: groupId -> recovered key, NoKey for undefined
    busy,           \* client: an operation is under way
    status,         \* client: the status line, "" for null
    pending,        \* client: the disclosure requests its decryptKey calls await
    console,        \* client: what console.error has logged
    newMessage,     \* client: the text in the composer
    messages,       \* client: the message list on display
    loads           \* client: the loadMessages calls that have not finished

ledger == <<groups, groupMembers, memberLists, groupMessages, acl, plain, events>>
vars == <<groups, groupMembers, memberLists, groupMessages, acl, plain, events,
          now, call, returnedIds, requests, disclosed,
          msgIn, keyIn, cipherOut, clearOut, phase, read,
          address, targetAddress, selectedGroupId, decryptedKeys, busy, status,
          pending, console, newMessage, messages, loads>>
recovery == <<requests, disclosed>>
cipher == <<msgIn, keyIn, cipherOut, clearOut, phase>>
client == <<address, targetAddress, selectedGroupId, decryptedKeys, busy, status,
            pending, console>>
display == <<newMessage, messages, loads>>

(***************************************************************************)
(* Read operations of the contract.                                        *)
(***************************************************************************)
validGroup(groupId) == groupId < Len(groups)

getGroupCount == Len(groups)

getGroup(groupId) == groups[groupId + 1]

getGroupSecret(groupId) == groups[groupId + 1].secret

listMembers(groupId) == memberLists[groupId]

isMember(groupId, account) == groupMembers[groupId][account]

getMessageCount(groupId) == Len(groupMessages[groupId])

getMessage(groupId, index) == groupMessages[groupId][index + 1]

(***************************************************************************)
(* The record of a call: what was asked, by whom, and how it ended.        *)
(* result is "ok" or the revert string of the require that failed.         *)
(***************************************************************************)
Call(op, sender, groupId, name, cipherText, result, ret) ==
    [op |-> op, sender |-> sender, groupId |-> groupId, name |-> name,
     cipherText |-> cipherText, result |-> result, ret |-> ret, key |-> NoKey]

\* a reverted transaction: every storage write, ACL grant and event is undone
Revert == UNCHANGED <<ledger, returnedIds>>

LedgerInit ==
    /\ groups = <<>>
    /\ groupMembers = [g \in GroupIds |-> [u \in Users |-> FALSE]]
    /\ memberLists = [g \in GroupIds |-> <<>>]
    /\ groupMessages = [g \in GroupIds |-> <<>>]
    /\ acl = <<>>
    /\ plain = <<>>
    /\ events = <<>>
    /\ now = 0
    /\ call = Call("none", This, NoGroup, NoText, NoText, "ok", NoGroup)
    /\ returnedIds = <<>>
    /\ requests = {}
    /\ disclosed = {}

NoAddress == "invalid"
NoRead == [op |-> "none", groupId |-> NoGroup, index |-> 0, account |-> This,
           result |-> "ok"]

\* the client as mounted: useState's initial values, the default contract
\* address, the wallet connected as alice; no view function called yet
ClientInit ==
    /\ address = "alice"
    /\ targetAddress = This
    /\ selectedGroupId = NoGroup
    /\ decryptedKeys = [g \in GroupIds |-> NoKey]
    /\ busy = FALSE
    /\ status = ""
    /\ pending = {}
    /\ console = <<>>
    /\ newMessage = <<>>
    /\ messages = <<>>
    /\ loads = {}
    /\ read = NoRead

\* no cipher run in progress
CipherIdle ==
    /\ msgIn = <<>>
    /\ keyIn = <<0, 0>>
    /\ cipherOut = <<>>
    /\ clearOut = <<>>
    /\ phase = "idle"

Init == LedgerInit /\ CipherIdle /\ ClientInit

(***************************************************************************)
(* createGroup(name), sent by `sender` in a block stamped ts; rnd is the   *)
(* value FHE.randEuint32() draws.  FHE.randEuint32 and FHE.rem each make a *)
(* fresh handle; a handle is its index in `plain` and `acl`.  The handle   *)
(* of the raw random value is allowed only transiently, within the         *)
(* transaction, so its stored ACL stays empty.                             *)
(***************************************************************************)
emit_Twice(event) == Append(Append(events, event), event)

\* emit GroupCreated(...) / MemberJoined(...) / MessagePosted(...): the log
\* after the event
emit(event) == Append(events, event)

createGroupError_NoCheck(name) == "ok"

\* require(bytes(name).length > 0, "Group name required")
createGroupError(name) ==
    IF ~(Len(name) > 0) THEN "Group name required" ELSE "ok"

mintSecret_NoRem(rnd) == rnd

\* the plaintext under FHE.rem(FHE.randEuint32(), 1_000_000)
mintSecret(rnd) == U32Rem(rnd, SECRET_BOUND)

nextGroupId_AfterPush == Len(groups) + 1

\* groupId = groups.length
nextGroupId == Len(groups)

newGroup_NoMember(name, sender, secret, ts) ==
    [name |-> name, creator |-> sender, secret |-> secret,
     createdAt |-> ts, memberCount |-> 0, messageCount |-> 0]

\* the GroupMetadata pushed
newGroup(name, sender, secret, ts) ==
    [name |-> name, creator |-> sender, secret |-> secret,
     createdAt |-> ts, memberCount |-> 1, messageCount |-> 0]

\* FHE.allow(secret, msg.sender); FHE.allowThis(secret)
createGrant(sender) == {sender, This}

createGroup(sender, name, rnd, ts) ==
    /\ now' = ts
    /\ UNCHANGED recovery
    /\ IF createGroupError(name) # "ok"
       THEN /\ call' = Call("createGroup", sender, NoGroup, name, NoText,
                            createGroupError(name), NoGroup)
            /\ Revert
       ELSE LET secret == Len(plain) + 2
                groupId == nextGroupId
            IN  /\ plain' = plain \o <<rnd, mintSecret(rnd)>>
                /\ groups' = Append(groups, newGroup(name, sender, secret, ts))
                /\ groupMembers' = [groupMembers EXCEPT ![groupId][sender] = TRUE]
                /\ memberLists' = [memberLists EXCEPT ![groupId] = Append(@, sender)]
                /\ acl' = acl \o <<{}, createGrant(sender)>>
                /\ events' = emit(<<"GroupCreated", groupId, sender, name, secret>>)
                /\ call' = Call("createGroup", sender, NoGroup, name, NoText, "ok", groupId)
                /\ returnedIds' = Append(returnedIds, groupId)
                /\ UNCHANGED groupMessages

(***************************************************************************)
(* joinGroup(groupId), sent by `sender`.                                   *)
(***************************************************************************)
joinGroupError_NoMemberCheck(sender, groupId) ==
    IF ~validGroup(groupId) THEN "Invalid group" ELSE "ok"

\* validGroup(groupId); require(!groupMembers[groupId][msg.sender], "Already joined")
joinGroupError(sender, groupId) ==
    IF ~validGroup(groupId) THEN "Invalid group"
    ELSE IF ~(~groupMembers[groupId][sender]) THEN "Already joined"
    ELSE "ok"

joinMembers_OthersLeave(groupId, sender) ==
    [groupMembers EXCEPT ![groupId] = [u \in Users |-> u = sender]]

joinMembers_NotRecorded(groupId, sender) == groupMembers

\* groupMembers[groupId][msg.sender] = true
joinMembers(groupId, sender) == [groupMembers EXCEPT ![groupId][sender] = TRUE]

listMember_First(groupId, sender) ==
    [memberLists EXCEPT ![groupId] = <<sender>> \o @]

\* memberLists[groupId].push(msg.sender)
listMember(groupId, sender) == [memberLists EXCEPT ![groupId] = Append(@, sender)]

joinGrant_Creator(groupId, sender) ==
    [acl EXCEPT ![groups[groupId + 1].secret] = @ \cup {groups[groupId + 1].creator}]

joinGrant_EveryGroup(groupId, sender) ==
    [h \in 1 .. Len(acl) |-> acl[h] \cup {sender}]

joinGrant_NoAllow(groupId, sender) == acl

\* FHE.allow(groups[groupId].secret, msg.sender)
joinGrant(groupId, sender) ==
    [acl EXCEPT ![groups[groupId + 1].secret] = @ \cup {sender}]

joinGroup(sender, groupId, ts) ==
    /\ now' = ts
    /\ UNCHANGED recovery
    /\ IF joinGroupError(sender, groupId) # "ok"
       THEN /\ call' = Call("joinGroup", sender, groupId, NoText, NoText,
                            joinGroupError(sender, groupId), NoGroup)
            /\ Revert
       ELSE /\ groupMembers' = joinMembers(groupId, sender)
            /\ memberLists' = listMember(groupId, sender)
            /\ groups' = [groups EXCEPT ![groupId + 1].memberCount = @ + 1]
            /\ acl' = joinGrant(groupId, sender)
            /\ events' = emit(<<"MemberJoined", groupId, sender>>)
            /\ call' = Call("joinGroup", sender, groupId, NoText, NoText, "ok", NoGroup)
            /\ UNCHANGED <<groupMessages, plain, returnedIds>>

(***************************************************************************)
(* postMessage(groupId, cipherText), sent by `sender`.                     *)
(***************************************************************************)
postMessageError_EmptyFirst(sender, groupId, cipherText) ==
    IF ~validGroup(groupId) THEN "Invalid group"
    ELSE IF ~(Len(cipherText) > 0) THEN "Message required"
    ELSE IF ~groupMembers[groupId][sender] THEN "Join first"
    ELSE "ok"

\* validGroup(groupId); require(groupMembers[groupId][msg.sender], "Join first");
\* require(bytes(cipherText).length > 0, "Message required")
postMessageError(sender, groupId, cipherText) ==
    IF ~validGroup(groupId) THEN "Invalid group"
    ELSE IF ~groupMembers[groupId][sender] THEN "Join first"
    ELSE IF ~(Len(cipherText) > 0) THEN "Message required"
    ELSE "ok"

storeMessage_Prepends(groupId, message) ==
    [groupMessages EXCEPT ![groupId] = <<message>> \o @]

\* groupMessages[groupId].push(Message{...})
storeMessage(groupId, message) ==
    [groupMessages EXCEPT ![groupId] = Append(@, message)]

countMessage_CountsDown(groupId) ==
    [groups EXCEPT ![groupId + 1].messageCount = @ - 1]

countMessage_NotCounted(groupId) == groups

\* groups[groupId].messageCount += 1
countMessage(groupId) == [groups EXCEPT ![groupId + 1].messageCount = @ + 1]

postMessage(sender, groupId, cipherText, ts) ==
    /\ now' = ts
    /\ UNCHANGED recovery
    /\ IF postMessageError(sender, groupId, cipherText) # "ok"
       THEN /\ call' = Call("postMessage", sender, groupId, NoText, cipherText,
                            postMessageError(sender, groupId, cipherText), NoGroup)
            /\ Revert
       ELSE /\ groupMessages' = storeMessage(groupId,
                    [sender |-> sender, cipherText |-> cipherText, timestamp |-> ts])
            /\ groups' = countMessage(groupId)
            /\ events' = emit(<<"MessagePosted", groupId, sender, cipherText, ts>>)
            /\ call' = Call("postMessage", sender, groupId, NoText, cipherText, "ok", NoGroup)
            /\ UNCHANGED <<groupMembers, memberLists, acl, plain, returnedIds>>

(***************************************************************************)
(* Key recovery.  decryptKey reads the group's secret handle, builds a     *)
(* disclosure request for the connected address and hands it to the        *)
(* authorization service (instance.userDecrypt); the service answers       *)
(* later.  The hardhat task task:decrypt-key and the tests issue the same  *)
(* request for their signer.                                               *)
(***************************************************************************)
\* instance.generateKeypair(): a key pair no request in flight carries, named
\* by the least number free
generateKeypair ==
    CHOOSE k \in 0 .. Cardinality(requests) :
        /\ \A req \in requests : req.keypair # k
        /\ \A j \in 0 .. (k - 1) : \E req \in requests : req.keypair = j

\* the request decryptKey signs: the handle read from the group, the fresh
\* key pair and the start of the validity window, the time of the call
userDecryptRequest(user, groupId) ==
    [user |-> user, groupId |-> groupId, handle |-> getGroupSecret(groupId),
     keypair |-> generateKeypair, startTimestamp |-> now]

decryptKey(user, groupId) ==
    /\ validGroup(groupId)
    /\ requests' = requests \cup {userDecryptRequest(user, groupId)}
    /\ call' = [Call("decryptKey", user, groupId, NoText, NoText, "pending", NoGroup)
                    EXCEPT !.key = NoKey]
    /\ UNCHANGED <<ledger, now, returnedIds, disclosed, cipher, read>>

\* the authorization service's own check of the ACL recorded on the ledger
aclAllows(handle, user) == user \in acl[handle]

\* the service answers request req: outcome is what the service is able to do
userDecrypt(req, outcome) ==
    /\ req \in requests
    /\ requests' = requests \ {req}
    /\ outcome \in {"answer", "Unavailable", "Expired"}
    /\ IF outcome # "answer"
       THEN /\ call' = Call("decryptKey", req.user, req.groupId, NoText, NoText,
                            outcome, NoGroup)
            /\ UNCHANGED disclosed
       ELSE IF ~aclAllows(req.handle, req.user)
       THEN /\ call' = Call("decryptKey", req.user, req.groupId, NoText, NoText,
                            "Unauthorized", NoGroup)
            /\ UNCHANGED disclosed
       ELSE /\ disclosed' = disclosed \cup
                    {[user |-> req.user, groupId |-> req.groupId, key |-> plain[req.handle]]}
            /\ call' = [Call("decryptKey", req.user, req.groupId, NoText, NoText,
                             "ok", NoGroup) EXCEPT !.key = plain[req.handle]]
    /\ UNCHANGED <<ledger, now, returnedIds, cipher, read>>

\* the blocks a transaction can land in: timestamps never decrease
BlockTimes == now .. (IF now < MaxTime THEN now + 1 ELSE now)

\* The write transactions anybody may send, while the event log is short.  A
\* group id is tried up to the first invalid one, getGroupCount().
Writes(maxEvents, names, times) ==
    \E sender \in Users, ts \in times :
        \/ \E name \in names, rnd \in RandSamples :
              /\ Len(name) = 0 \/ Len(groups) < MaxGroups
              /\ createGroup(sender, name, rnd, ts)
              /\ Len(events') <= maxEvents
              /\ UNCHANGED <<cipher, read, client, display>>
        \/ \E groupId \in 0 .. Len(groups) :
              /\ joinGroup(sender, groupId, ts)
              /\ Len(events') <= maxEvents
              /\ UNCHANGED <<cipher, read, client, display>>
        \/ \E groupId \in 0 .. Len(groups), cipherText \in CipherTexts :
              /\ postMessage(sender, groupId, cipherText, ts)
              /\ Len(events') <= maxEvents
              /\ UNCHANGED <<cipher, read, client, display>>

Next == Writes(MaxEvents, Names, BlockTimes)

Spec == Init /\ [][Next]_vars

(***************************************************************************)
(* Minting alone, with random values from both ends of the 32-bit range.   *)
(* A 32-bit value is b * 1_000_000 + r for a block b and a residue r; as   *)
(* halves, 1_000_000 is <<15, 16960>>.                                     *)
(***************************************************************************)
Blocks == 0 .. 4295

Lift(b, r) ==
    LET lo == (b * 16960) + r[2]
        hi == (b * 15) + r[1] + (lo \div 65536)
    IN  <<hi, lo % 65536>>

IsU32(v) == v[1] \in 0 .. 65535 /\ v[2] \in 0 .. 65535

\* the 32-bit values FHE.randEuint32() can give that the reduction sends to r
Preimages(r) ==
    {b \in Blocks : IsU32(Lift(b, r)) /\ mintSecret(Lift(b, r)) = r}

MintSamples ==
    {v \in {Lift(b, ToU32(r)) : b \in {0, 4294}, r \in {0, 967295, 967296, 999999}} :
        IsU32(v)}

MintNext ==
    \E sender \in Users, rnd \in MintSamples :
        /\ Len(groups) < MaxGroups
        /\ createGroup(sender, <<"A">>, rnd, now)
        /\ UNCHANGED <<cipher, read, client, display>>

MintSpec == Init /\ [][MintNext]_vars

RecoveryNext ==
    \/ Writes(MaxRecoveryEvents, {<<"A">>}, {now})
    \/ \E user \in Users, groupId \in GroupIds :
          /\ Cardinality(requests) < MaxRequests
          /\ decryptKey(user, groupId)
          /\ UNCHANGED <<client, display>>
    \/ \E req \in requests, outcome \in {"answer", "Unavailable", "Expired"} :
          /\ userDecrypt(req, outcome)
          /\ UNCHANGED <<client, display>>

RecoverySpec == Init /\ [][RecoveryNext]_vars

(***************************************************************************)
(* Calls of the view functions.  What a view function returns is given by  *)
(* the operator of its name; a call records which function was called,     *)
(* with what, and whether it returned or reverted.                         *)
(***************************************************************************)
ReadOps == {"getGroup", "getGroupCount", "getGroupSecret", "listMembers",
            "isMember", "getMessageCount", "getMessage"}

readError_NoIndexCheck(op, groupId, index) ==
    IF op # "getGroupCount" /\ ~validGroup(groupId) THEN "Invalid group" ELSE "ok"

\* the validGroup modifier of every view function that takes a groupId, then
\* getMessage's require(index < groupMessages[groupId].length, ...)
readError(op, groupId, index) ==
    IF op # "getGroupCount" /\ ~validGroup(groupId) THEN "Invalid group"
    ELSE IF op = "getMessage" /\ ~(index < Len(groupMessages[groupId]))
    THEN "Invalid message index"
    ELSE "ok"

\* an external view function is called: it writes nothing
view(op, groupId, index, account) ==
    /\ read' = [op |-> op, groupId |-> groupId, index |-> index,
                account |-> account, result |-> readError(op, groupId, index)]
    /\ UNCHANGED <<ledger, now, call, returnedIds, recovery, cipher, client, display>>

\* the arguments a view function takes; the others are left at a default
ReadCalls ==
    [op : {"getGroupCount"}, groupId : {NoGroup}, index : {0}, account : {This}]
    \cup [op : {"getGroup", "getGroupSecret", "listMembers", "getMessageCount"},
          groupId : 0 .. Len(groups), index : {0}, account : {This}]
    \cup [op : {"isMember"}, groupId : 0 .. Len(groups), index : {0}, account : Users]
    \cup [op : {"getMessage"}, groupId : 0 .. Len(groups),
          index : 0 .. MaxReadEvents, account : {This}]

ReadNext ==
    \/ Writes(MaxReadEvents, {<<"A">>}, {now})
    \/ \E c \in ReadCalls : view(c.op, c.groupId, c.index, c.account)

ReadSpec == Init /\ [][ReadNext]_vars

(***************************************************************************)
(* The client (AnonVerseApp): one mounted component, whose wallet account  *)
(* and contract address can change while it stays mounted.  Its handlers   *)
(* are the operations; the disabled attributes of the buttons and the      *)
(* cached group list and membership flags are not part of the model.  The  *)
(* handlers below leave the composer and the message list to the caller:   *)
(* DisplayNext, further down, runs them with the message view, the other   *)
(* runs without it.                                                        *)
(* The wallet is connected and the Zama instance loaded.  sendMessage      *)
(* submits its transaction and waits for it in one step; decryptKey        *)
(* suspends on the authorization service, so it is a request step and a    *)
(* settling step.                                                          *)
(***************************************************************************)
\* the texts typed in the composer: " " and "A"
Drafts == {<<32>>, <<65>>}

\* String.prototype.trim, for texts whose only white space is U+0020
trim(text) ==
    LET solid == {i \in 1 .. Len(text) : text[i] # 32}
    IN  IF solid = {} THEN <<>>
        ELSE SubSeq(text, CHOOSE i \in solid : \A j \in solid : i <= j,
                          CHOOSE i \in solid : \A j \in solid : i >= j)

\* the account switches in the wallet
useAccount(user) ==
    /\ user # address
    /\ address' = user
    /\ UNCHANGED <<ledger, now, call, returnedIds, recovery, cipher, read,
                   targetAddress, selectedGroupId, decryptedKeys, busy, status,
                   pending, console>>

\* loadGroups: with no valid address the selection is dropped; otherwise the
\* first group is selected when none is, or when the selection is out of range
selectAfterLoad(target) ==
    IF target = NoAddress THEN NoGroup
    ELSE IF Len(groups) > 0 /\ (selectedGroupId = NoGroup \/ selectedGroupId >= Len(groups))
    THEN 0
    ELSE selectedGroupId

\* the Refresh button
loadGroups ==
    /\ selectedGroupId' = selectAfterLoad(targetAddress)
    /\ UNCHANGED <<ledger, now, call, returnedIds, recovery, cipher, read,
                   address, targetAddress, decryptedKeys, busy, status,
                   pending, console>>

\* the address field changes: the effect on targetAddress clears the status
\* and runs loadGroups
setContractAddress(value) ==
    /\ value # targetAddress
    /\ targetAddress' = value
    /\ status' = ""
    /\ selectedGroupId' = selectAfterLoad(value)
    /\ UNCHANGED <<ledger, now, call, returnedIds, recovery, cipher, read,
                   address, decryptedKeys, busy, pending, console>>

\* a click on the card of a listed group
setSelectedGroupId(groupId) ==
    /\ targetAddress # NoAddress
    /\ validGroup(groupId)
    /\ selectedGroupId' = groupId
    /\ UNCHANGED <<ledger, now, call, returnedIds, recovery, cipher, read,
                   address, targetAddress, decryptedKeys, busy, status,
                   pending, console>>

\* decryptKey(group) up to its await of instance.userDecrypt
clientDecryptKey(groupId) ==
    /\ IF targetAddress = NoAddress
       THEN /\ status' = "Connect wallet and wait for the Zama SDK to finish loading."
            /\ UNCHANGED <<ledger, now, call, returnedIds, recovery, cipher, read,
                           address, targetAddress, selectedGroupId, decryptedKeys,
                           busy, pending, console>>
       ELSE /\ decryptKey(address, groupId)
            /\ pending' = pending \cup {userDecryptRequest(address, groupId)}
            /\ busy' = TRUE
            /\ status' = "Requesting key decryption..."
            /\ UNCHANGED <<address, targetAddress, selectedGroupId, decryptedKeys,
                           console>>

storeKey_Replaces(groupId, result, key) ==
    IF result = "ok"
    THEN [g \in GroupIds |-> IF g = groupId THEN key ELSE NoKey]
    ELSE decryptedKeys

storeKey_Always(groupId, result, key) ==
    [decryptedKeys EXCEPT ![groupId] = IF result = "ok" THEN key ELSE <<0, 0>>]

\* setDecryptedKeys((prev) => ({ ...prev, [group.id]: clearKey })), reached
\* only when userDecrypt did not throw
storeKey(groupId, result, key) ==
    IF result = "ok" THEN [decryptedKeys EXCEPT ![groupId] = key] ELSE decryptedKeys

\* the status decryptKey leaves: set after the key is stored, or in the catch
\* block, which does not look at the error
decryptStatus(result) ==
    IF result = "ok" THEN "Group key decrypted"
    ELSE "Unable to decrypt the key. Retry in a moment."

\* the decryptKey call awaiting req, from the answer of the service on: try,
\* catch and finally
clientDecryptKeySettled(req, outcome) ==
    /\ req \in pending
    /\ userDecrypt(req, outcome)
    /\ decryptedKeys' = storeKey(req.groupId, call'.result, call'.key)
    /\ status' = decryptStatus(call'.result)
    /\ console' = IF call'.result = "ok" THEN console
                  ELSE Append(console, "Decrypt failed")
    /\ busy' = FALSE
    /\ pending' = pending \ {req}
    /\ UNCHANGED <<address, targetAddress, selectedGroupId>>

recoveredKey_Default(groupId) ==
    IF decryptedKeys[groupId] = NoKey THEN <<0, 0>> ELSE decryptedKeys[groupId]

\* const key = decryptedKeys[selectedGroupId]
recoveredKey(groupId) == decryptedKeys[groupId]

\* the early returns of sendMessage: the status it sets, "ok" when it goes on
sendMessageError(text) ==
    IF selectedGroupId = NoGroup THEN "Select a group first."
    ELSE IF trim(text) = <<>> THEN "Type a message to send."
    ELSE IF targetAddress = NoAddress THEN "Enter the deployed contract address first."
    ELSE IF recoveredKey(selectedGroupId) = NoKey
    THEN "Decrypt the group key before sending."
    ELSE "ok"

\* sendMessage, its transaction landing in a block stamped ts
sendMessage(text, ts) ==
    IF sendMessageError(text) # "ok"
    THEN /\ status' = sendMessageError(text)
         /\ UNCHANGED <<ledger, now, call, returnedIds, recovery, cipher, read,
                        address, targetAddress, selectedGroupId, decryptedKeys,
                        busy, pending, console>>
    ELSE LET key == recoveredKey(selectedGroupId)
             cipherText == encodeMessage(text, key)
         IN  /\ msgIn' = text
             /\ keyIn' = key
             /\ cipherOut' = cipherText
             /\ phase' = "encoded"
             /\ postMessage(address, selectedGroupId, cipherText, ts)
             /\ IF call'.result = "ok"
                THEN /\ status' = "Encrypting and sending..."
                     /\ console' = console
                ELSE /\ status' = "Failed to send the message."
                     /\ console' = Append(console, "Send failed")
             /\ busy' = FALSE
             /\ UNCHANGED <<clearOut, read, address, targetAddress, selectedGroupId,
                            decryptedKeys, pending>>

\* The client runs beside the transactions other parties send to the ledger:
\* here the creations and joins that succeed.
ClientNext ==
    \/ \E sender \in Users, rnd \in RandSamples :
          /\ Len(events) < MaxClientEvents
          /\ createGroup(sender, <<"A">>, rnd, now)
          /\ UNCHANGED <<cipher, read, client, display>>
    \/ \E sender \in Users, groupId \in GroupIds :
          /\ Len(events) < MaxClientEvents
          /\ joinGroupError(sender, groupId) = "ok"
          /\ joinGroup(sender, groupId, now)
          /\ UNCHANGED <<cipher, read, client, display>>
    \/ \E user \in Users : useAccount(user) /\ UNCHANGED display
    \/ loadGroups /\ UNCHANGED display
    \/ \E value \in {This, NoAddress} : setContractAddress(value) /\ UNCHANGED display
    \/ \E groupId \in GroupIds : setSelectedGroupId(groupId) /\ UNCHANGED display
    \/ \E groupId \in GroupIds :
          /\ pending = {}
          /\ clientDecryptKey(groupId)
          /\ UNCHANGED display
    \/ \E req \in pending, outcome \in {"answer", "Unavailable", "Expired"} :
          /\ clientDecryptKeySettled(req, outcome)
          /\ Len(console') <= MaxLog
          /\ UNCHANGED display
    \/ \E text \in Drafts :
          /\ sendMessage(text, now)
          /\ Len(events') <= MaxClientEvents
          /\ Len(console') <= MaxLog
          /\ UNCHANGED display

ClientSpec == Init /\ [][ClientNext]_vars

(***************************************************************************)
(* The message view.  loadMessages reads the count and then the messages   *)
(* of a group and puts them on display with one setMessages; here a call   *)
(* in flight is a record of its group and of the key its closure holds,    *)
(* and it reads the ledger when it completes.  Nothing orders or cancels   *)
(* the calls in flight.                                                    *)
(***************************************************************************)
\* clearText: undefined
Undefined == <<-1>>

\* the items loadMessages builds, deciphered when its closure held a key
ChatMessages(groupId, clearKey) ==
    [i \in 1 .. getMessageCount(groupId) |->
        LET message == getMessage(groupId, i - 1)
        IN  [sender |-> message.sender,
             cipherText |-> message.cipherText,
             timestamp |-> message.timestamp,
             clearText |-> IF clearKey # NoKey
                           THEN decodeMessage(message.cipherText, clearKey)
                           ELSE Undefined]]

\* loadMessages(groupId) as created by a render whose decryptedKeys is keys:
\* the calls it starts
loadMessages(groupId, keys) ==
    IF targetAddress = NoAddress THEN {}
    ELSE {[groupId |-> groupId, clearKey |-> keys[groupId]]}

\* a loadMessages call completes: setMessages(items)
loadMessagesDone(load) ==
    /\ load \in loads
    /\ messages' = ChatMessages(load.groupId, load.clearKey)
    /\ loads' = loads \ {load}
    /\ UNCHANGED <<ledger, now, call, returnedIds, recovery, cipher, read, client,
                   newMessage>>

\* the effect on the selected group, run after a render in which the
\* selection, the keys or the account changed; started are the calls the
\* handler itself has begun
selectedGroupEffect(started) ==
    IF selectedGroupId' = NoGroup
    THEN /\ messages' = <<>>
         /\ loads' = loads \cup started
    ELSE /\ messages' = messages
         /\ loads' = loads \cup started
                        \cup loadMessages(selectedGroupId', decryptedKeys')

\* typing in the composer
setNewMessage(text) ==
    /\ newMessage' = text
    /\ UNCHANGED <<ledger, now, call, returnedIds, recovery, cipher, read, client,
                   messages, loads>>

\* how a sendMessage step ended: the early return taken, or the outcome of
\* the transaction
sendOutcome(text) ==
    IF sendMessageError(text) # "ok" THEN sendMessageError(text) ELSE call'.result

composerAfter_Cleared(result) == <<>>

\* setNewMessage('') after tx.wait()
composerAfter(result) == IF result = "ok" THEN <<>> ELSE newMessage

\* await loadMessages(selectedGroupId) after tx.wait(), from the closure of
\* the render sendMessage was created in
reloadAfter(result) ==
    IF result = "ok" THEN loadMessages(selectedGroupId, decryptedKeys) ELSE {}

\* The message list of the client, beside the groups other parties create
\* and the messages they post.  The Decrypt button is the one of the selected
\* group; the group cards stay clickable while a handler is busy.
DisplayNext ==
    \/ \E sender \in Users :
          /\ Len(events) < MaxDisplayEvents /\ Len(groups) < MaxGroups
          /\ createGroup(sender, <<"A">>, <<65535, 65535>>, now)
          /\ UNCHANGED <<cipher, read, client, display>>
    \/ \E sender \in Users, groupId \in GroupIds :
          /\ Len(events) < MaxDisplayEvents
          /\ postMessageError(sender, groupId, <<"6", "8">>) = "ok"
          /\ postMessage(sender, groupId, <<"6", "8">>, now)
          /\ UNCHANGED <<cipher, read, client, display>>
    \/ \E groupId \in GroupIds :
          /\ groupId # selectedGroupId
          /\ setSelectedGroupId(groupId)
          /\ newMessage' = newMessage
          /\ selectedGroupEffect({})
    \/ /\ pending = {} /\ selectedGroupId # NoGroup
       /\ clientDecryptKey(selectedGroupId)
       /\ UNCHANGED display
    \/ \E req \in pending, outcome \in {"answer", "Unavailable"} :
          /\ clientDecryptKeySettled(req, outcome)
          /\ Len(console') <= MaxLog
          /\ newMessage' = newMessage
          /\ IF call'.result = "ok"
             THEN selectedGroupEffect(loadMessages(req.groupId, decryptedKeys))
             ELSE UNCHANGED <<messages, loads>>
    \/ \E load \in loads : loadMessagesDone(load)

DisplaySpec == Init /\ [][DisplayNext]_vars

\* The composer of the client: texts typed and sent, by the account that
\* recovered the key or by another one the wallet has switched to.
ComposerNext ==
    \/ \E sender \in Users :
          /\ Len(events) < MaxClientEvents /\ Len(groups) < MaxGroups
          /\ createGroup(sender, <<"A">>, <<65535, 65535>>, now)
          /\ UNCHANGED <<cipher, read, client, display>>
    \/ \E user \in Users :
          /\ useAccount(user)
          /\ newMessage' = newMessage
          /\ selectedGroupEffect({})
    \/ \E groupId \in GroupIds :
          /\ groupId # selectedGroupId
          /\ setSelectedGroupId(groupId)
          /\ newMessage' = newMessage
          /\ selectedGroupEffect({})
    \/ /\ pending = {} /\ selectedGroupId # NoGroup
       /\ clientDecryptKey(selectedGroupId)
       /\ UNCHANGED display
    \/ \E req \in pending :
          /\ clientDecryptKeySettled(req, "answer")
          /\ Len(console') <= MaxLog
          /\ newMessage' = newMessage
          /\ IF call'.result = "ok"
             THEN selectedGroupEffect(loadMessages(req.groupId, decryptedKeys))
             ELSE UNCHANGED <<messages, loads>>
    \/ \E text \in Drafts : setNewMessage(text)
    \/ /\ sendMessage(newMessage, now)
       /\ Len(events') <= MaxClientEvents
       /\ Len(console') <= MaxLog
       /\ newMessage' = composerAfter(sendOutcome(newMessage))
       /\ loads' = loads \cup reloadAfter(sendOutcome(newMessage))
       /\ messages' = messages
    \/ \E load \in loads : loadMessagesDone(load)

ComposerSpec == Init /\ [][ComposerNext]_vars

\* decryptKey called again while earlier calls still await their answers,
\* which come in any order
ConcurrentNext ==
    \/ \E sender \in Users, rnd \in RandSamples :
          /\ Len(events) < MaxClientEvents
          /\ createGroup(sender, <<"A">>, rnd, now)
          /\ UNCHANGED <<cipher, read, client, display>>
    \/ \E groupId \in GroupIds :
          /\ Cardinality(pending) < MaxPending
          /\ clientDecryptKey(groupId)
          /\ UNCHANGED display
    \/ \E req \in pending, outcome \in {"answer", "Unavailable", "Expired"} :
          /\ clientDecryptKeySettled(req, outcome)
          /\ Len(console') <= MaxLog
          /\ UNCHANGED display

ConcurrentSpec == Init /\ [][ConcurrentNext]_vars

(***************************************************************************)
(* A run of the cipher alone: a message and a key are given, the message   *)
(* is enciphered, and the cipher text deciphered with the same key.        *)
(***************************************************************************)
\* the helpers of the contract's test suite

\* Buffer.from(bytes).toString("hex"): two lower-case digits for each byte
bufferToHex(bytes) ==
    Flatten([i \in 1 .. Len(bytes) |->
        <<HexDigits[(bytes[i] \div 16) + 1], HexDigits[(bytes[i] % 16) + 1]>>])

\* Buffer.from(text, "hex"): one byte for each pair of hex digits, up to the
\* first pair that is not one; a trailing single digit is dropped
RECURSIVE bufferFromHex(_)
bufferFromHex(text) ==
    IF Len(text) < 2 THEN <<>>
    ELSE IF IsHexDigit(text[1]) /\ IsHexDigit(text[2])
    THEN <<HexValue(text[1]) * 16 + HexValue(text[2])>>
             \o bufferFromHex(SubSeq(text, 3, Len(text)))
    ELSE <<>>

\* new Uint8Array(4) filled by DataView.setUint32(0, key): big-endian
setUint32(key) ==
    <<key[1] \div 256, key[1] % 256, key[2] \div 256, key[2] % 256>>

xorEncrypt(message, key) ==
    LET bytes == TextEncode(message)
        encrypted == xorStream(bytes, setUint32(key))
    IN  bufferToHex(encrypted)

xorDecrypt(cipherText, key) ==
    LET cipherBytes == bufferFromHex(cipherText)
        plainBytes == xorStream(cipherBytes, setUint32(key))
    IN  TextDecode(plainBytes)

CipherInit ==
    /\ LedgerInit
    /\ ClientInit
    /\ msgIn \in Messages
    /\ keyIn \in KeySamples
    /\ cipherOut = <<>>
    /\ clearOut = <<>>
    /\ phase = "input"

Encode ==
    /\ phase = "input"
    /\ cipherOut' = encodeMessage(msgIn, keyIn)
    /\ phase' = "encoded"
    /\ UNCHANGED <<ledger, now, call, returnedIds, recovery, msgIn, keyIn, clearOut,
                   read, client, display>>

Decode ==
    /\ phase = "encoded"
    /\ clearOut' = decodeMessage(cipherOut, keyIn)
    /\ phase' = "decoded"
    /\ UNCHANGED <<ledger, now, call, returnedIds, recovery, msgIn, keyIn, cipherOut,
                   read, client, display>>

CipherNext == Encode \/ Decode

CipherSpec == CipherInit /\ [][CipherNext]_vars

(***************************************************************************)
(* Properties.                                                             *)
(***************************************************************************)

\* C1: whatever createGroup, joinGroup and postMessage calls were made, by
\* whom and however they ended, getGroupCount() is the number of createGroup
\* calls that succeeded, and the i-th successful createGroup returned i - 1:
\* the count as it was before the call, so ids are 0-based and sequential,
\* with no gap and no reuse.
C1_SequentialGroupIds ==
    /\ getGroupCount = Len(returnedIds)
    /\ \A i \in 1 .. Len(returnedIds) : returnedIds[i] = i - 1
    /\ (call.op = "createGroup" /\ call.result = "ok") => call.ret = getGroupCount - 1

\* a second group has just been created, after other calls
C1_Witness ==
    /\ call.op = "createGroup" /\ call.result = "ok" /\ call.ret = 1
    /\ Len(events) = 3

\* C2: right after a successful createGroup(name) by A that returned g,
\* getGroup(g) gives name, creator A, memberCount 1 and messageCount 0, A is a
\* member, listMembers(g) is exactly <<A>> and nobody else is a member.
C2_FreshGroup ==
    (call.op = "createGroup" /\ call.result = "ok") =>
        /\ validGroup(call.ret)
        /\ getGroup(call.ret).name = call.name
        /\ getGroup(call.ret).creator = call.sender
        /\ getGroup(call.ret).memberCount = 1
        /\ getGroup(call.ret).messageCount = 0
        /\ isMember(call.ret, call.sender)
        /\ listMembers(call.ret) = <<call.sender>>
        /\ \A X \in Users \ {call.sender} : ~isMember(call.ret, X)

\* bob has just created the second group
C2_Witness ==
    /\ call.op = "createGroup" /\ call.result = "ok"
    /\ call.sender = "bob" /\ call.ret = 1

\* C3: in every reachable state and for every existing group, the ACL of the
\* group's secret is exactly the group's members and the ledger itself.
C3_AclIsMembership ==
    \A g \in GroupIds :
        validGroup(g) =>
            acl[getGroupSecret(g)] = {X \in Users : isMember(g, X)} \cup {This}

\* somebody has just joined a group somebody else created
C3_Witness ==
    /\ call.op = "joinGroup" /\ call.result = "ok"
    /\ getGroup(call.groupId).memberCount = 2
    /\ acl[getGroupSecret(call.groupId)] = Users \cup {This}

\* C4: a recovery of group g's secret by X yields the plaintext only if X is
\* on the ACL of the secret when the service checks, and ends Unauthorized
\* when X is not; so whoever has ever obtained the plaintext of g's secret is
\* a member of g.
C4_DisclosureOnlyToMembers ==
    /\ [](\A d \in disclosed : validGroup(d.groupId) /\ isMember(d.groupId, d.user))
    /\ [][\A req \in requests :
            requests' = requests \ {req} =>
                /\ call'.result = "ok" =>
                      /\ aclAllows(req.handle, req.user)
                      /\ isMember(req.groupId, req.user)
                      /\ call'.key = plain[req.handle]
                /\ (~aclAllows(req.handle, req.user) /\ call'.result \notin {"Unavailable", "Expired"}) =>
                      /\ call'.result = "Unauthorized"
                      /\ disclosed' = disclosed
                /\ call'.result = "Unauthorized" => ~aclAllows(req.handle, req.user)]_vars

\* bob, who joined the group alice created, has just obtained its key
C4_Witness ==
    /\ \E d \in disclosed : d.user = "bob" /\ getGroup(d.groupId).creator = "alice"
    /\ call.op = "decryptKey" /\ call.result = "ok" /\ call.sender = "bob"

\* C5: a successful postMessage(g, cipherText) by member C raises
\* getMessageCount(g) and the group's messageCount by exactly one, stores the
\* message at the old count with sender C and the text as submitted, and
\* leaves the earlier messages of g as they were.
C5_PostAppends ==
    [][\A g \in GroupIds, n \in 0 .. MaxEvents :
        (/\ call'.op = "postMessage" /\ call'.result = "ok" /\ call'.groupId = g
         /\ validGroup(g) /\ n = getMessageCount(g)) =>
            /\ isMember(g, call'.sender) /\ Len(call'.cipherText) > 0
            /\ getMessageCount(g)' = n + 1
            /\ getGroup(g)'.messageCount = getGroup(g).messageCount + 1
            /\ getMessage(g, n)'.sender = call'.sender
            /\ getMessage(g, n)'.cipherText = call'.cipherText
            /\ \A i \in 0 .. n - 1 : getMessage(g, i)' = getMessage(g, i)
      ]_vars

\* a second message has just been posted to a group
C5_Witness ==
    /\ call.op = "postMessage" /\ call.result = "ok"
    /\ getMessageCount(call.groupId) = 2
    /\ getMessage(call.groupId, 1).sender = call.sender

\* the revert strings of the contract, by the name the design gives the failure
NotFound == "Invalid group"
Forbidden == "Join first"
AlreadyMember == "Already joined"
MessageRequired == "Message required"
NameRequired == "Group name required"

\* C6: postMessage(g, cipherText) fails with NotFound when g does not exist;
\* otherwise with Forbidden when the caller is not a member of g, whatever the
\* text, the empty one included; otherwise with InvalidArgument when the text
\* is empty.  A message is appended only for a member: every stored message
\* was sent by a member of its group.
C6_PostErrors ==
    /\ [][call'.op = "postMessage" =>
            /\ ~validGroup(call'.groupId) => call'.result = NotFound
            /\ (validGroup(call'.groupId) /\ ~isMember(call'.groupId, call'.sender)) =>
                    /\ call'.result = Forbidden
                    /\ groupMessages' = groupMessages
            /\ (/\ validGroup(call'.groupId) /\ isMember(call'.groupId, call'.sender)
                /\ Len(call'.cipherText) = 0) => call'.result = MessageRequired
          ]_vars
    /\ [](\A g \in GroupIds : \A i \in 1 .. Len(groupMessages[g]) :
                validGroup(g) /\ isMember(g, groupMessages[g][i].sender))

\* a non-member has just posted the empty text to an existing group
C6_Witness ==
    /\ call.op = "postMessage" /\ call.result = Forbidden
    /\ Len(call.cipherText) = 0 /\ validGroup(call.groupId)
    /\ ~isMember(call.groupId, call.sender)

NoDuplicates(list) ==
    \A i, j \in 1 .. Len(list) : list[i] = list[j] => i = j

\* C7: joinGroup(g) fails with NotFound when g does not exist and with
\* AlreadyMember when the caller is a member of g already, the creator
\* included; memberCount and listMembers(g) are then unchanged, and nobody is
\* ever listed or counted twice.
C7_JoinErrors ==
    /\ [][\A g \in GroupIds :
            (call'.op = "joinGroup" /\ call'.groupId = g) =>
                /\ ~validGroup(g) => call'.result = NotFound
                /\ (validGroup(g) /\ isMember(g, call'.sender)) =>
                        /\ call'.result = AlreadyMember
                        /\ getGroup(g)'.memberCount = getGroup(g).memberCount
                        /\ listMembers(g)' = listMembers(g)
          ]_vars
    /\ [](\A g \in GroupIds :
            validGroup(g) =>
                /\ NoDuplicates(listMembers(g))
                /\ getGroup(g).memberCount = Len(listMembers(g)))

\* the creator of a group has just tried to join it
C7_Witness ==
    /\ call.op = "joinGroup" /\ call.result = AlreadyMember
    /\ getGroup(call.groupId).creator = call.sender

\* the inputs with which the call just made must fail
FailingInputs ==
    \/ call'.op = "createGroup" /\ Len(call'.name) = 0
    \/ call'.op = "joinGroup" /\ ~validGroup(call'.groupId)
    \/ call'.op = "joinGroup" /\ validGroup(call'.groupId)
            /\ isMember(call'.groupId, call'.sender)
    \/ call'.op = "postMessage" /\ ~validGroup(call'.groupId)
    \/ call'.op = "postMessage" /\ validGroup(call'.groupId)
            /\ ~isMember(call'.groupId, call'.sender)
    \/ call'.op = "postMessage" /\ Len(call'.cipherText) = 0

\* C8: every failing write (createGroup with an empty name; joinGroup on an
\* unknown group or by a member; postMessage on an unknown group, by a
\* non-member, or with an empty text) fails and leaves the ledger as it was:
\* groups, membership flags, member lists, messages, ACLs and the event log.
C8_FailedWritesChangeNothing ==
    [][(FailingInputs \/ (call'.op # "none" /\ call'.result # "ok")) =>
            /\ call'.result \in {NotFound, Forbidden, AlreadyMember,
                                 MessageRequired, NameRequired}
            /\ ledger' = ledger
      ]_vars

\* an empty name has just been refused by a ledger that holds groups
C8_Witness ==
    /\ call.op = "createGroup" /\ call.result = NameRequired
    /\ Len(events) >= 2

\* C9: for every message m and every secret k in [0, 1_000_000), deciphering
\* the cipher text of m under k with k gives m back, unit for unit.
C9_RoundTrip ==
    (phase = "decoded" /\ U32Less(keyIn, SECRET_BOUND)) => clearOut = msgIn

\* C10: the plaintext of every group's secret lies in [0, 1_000_000), and
\* whoever recovers it, whenever, obtains that value: two recoveries for the
\* same group never differ.
C10_OneBoundedSecret ==
    /\ \A g \in GroupIds :
            validGroup(g) => U32Less(plain[getGroupSecret(g)], SECRET_BOUND)
    /\ \A d \in disclosed :
            /\ U32Less(d.key, SECRET_BOUND)
            /\ d.key = plain[getGroupSecret(d.groupId)]
    /\ \A d1, d2 \in disclosed : d1.groupId = d2.groupId => d1.key = d2.key

\* the creator and a joiner have both recovered the secret of a group
C10_Witness ==
    \E d1, d2 \in disclosed :
        /\ d1.groupId = d2.groupId /\ d1.user # d2.user
        /\ getGroup(d1.groupId).creator = d1.user

\* the events of one kind about group g, in log order
EventsOf(kind, g) == SelectSeq(events, LAMBDA e : e[1] = kind /\ e[2] = g)

\* C12: every successful createGroup, joinGroup and postMessage appends
\* exactly one event to the log, carrying the values just written, and a
\* failing write appends nothing; so the log, read in order, is the history
\* of the ledger: one GroupCreated per group, the MemberJoined events of a
\* group are its members after the creator, and its MessagePosted events are
\* its messages.
C12_EventsMirrorWrites ==
    /\ [][\A g \in GroupIds, n \in 0 .. MaxEvents :
            /\ (call'.op = "createGroup" /\ call'.result = "ok" /\ call'.ret = g) =>
                    events' = Append(events, <<"GroupCreated", g, call'.sender,
                                              call'.name, getGroupSecret(g)'>>)
            /\ (call'.op = "joinGroup" /\ call'.result = "ok" /\ call'.groupId = g) =>
                    events' = Append(events, <<"MemberJoined", g, call'.sender>>)
            /\ (/\ call'.op = "postMessage" /\ call'.result = "ok" /\ call'.groupId = g
                /\ n = getMessageCount(g)) =>
                    events' = Append(events, <<"MessagePosted", g, call'.sender,
                                              call'.cipherText, getMessage(g, n)'.timestamp>>)
            /\ call'.result # "ok" => events' = events
            /\ events' # events =>
                    /\ call'.op \in {"createGroup", "joinGroup", "postMessage"}
                    /\ call'.result = "ok"
          ]_vars
    /\ [](/\ \A i \in 1 .. Len(events) : validGroup(events[i][2])
          /\ \A g \in GroupIds :
                validGroup(g) =>
                    /\ EventsOf("GroupCreated", g) =
                            << <<"GroupCreated", g, getGroup(g).creator,
                                 getGroup(g).name, getGroupSecret(g)>> >>
                    /\ [i \in 1 .. Len(EventsOf("MemberJoined", g)) |->
                            EventsOf("MemberJoined", g)[i][3]] = Tail(listMembers(g))
                    /\ [i \in 1 .. Len(EventsOf("MessagePosted", g)) |->
                            [sender |-> EventsOf("MessagePosted", g)[i][3],
                             cipherText |-> EventsOf("MessagePosted", g)[i][4],
                             timestamp |-> EventsOf("MessagePosted", g)[i][5]]]
                        = groupMessages[g])

\* a creation, a join and a message are in the log, and a write has just failed
C12_Witness ==
    /\ Len(events) = 3
    /\ events[1][1] = "GroupCreated" /\ events[2][1] = "MemberJoined"
    /\ events[3][1] = "MessagePosted"
    /\ call.result # "ok"

\* C14: across every step, whoever is a member of a group stays a member of
\* it, and whoever is on the ACL of a group's secret stays on it; no handle
\* loses a grant.
C14_MembershipAndAclGrow ==
    [][/\ \A g \in GroupIds, X \in Users :
            validGroup(g) =>
                /\ isMember(g, X) => isMember(g, X)'
                /\ X \in acl[getGroupSecret(g)] => X \in acl'[getGroupSecret(g)']
       /\ Len(acl) <= Len(acl')
       /\ \A h \in 1 .. Len(acl) : acl[h] \subseteq acl'[h]
      ]_vars

\* both users are members of the first group and on the ACL of its secret,
\* and a second group has just been created
C14_Witness ==
    /\ call.op = "createGroup" /\ call.result = "ok" /\ call.ret = 1
    /\ \A X \in Users : isMember(0, X) /\ X \in acl[getGroupSecret(0)]

\* C15: across every step, an existing group still exists, its name,
\* creator, createdAt and secret handle are what they were, and its
\* memberCount and messageCount have not decreased.
C15_GroupFieldsStable ==
    [][\A g \in GroupIds :
        validGroup(g) =>
            /\ validGroup(g)'
            /\ getGroup(g)'.name = getGroup(g).name
            /\ getGroup(g)'.creator = getGroup(g).creator
            /\ getGroup(g)'.createdAt = getGroup(g).createdAt
            /\ getGroupSecret(g)' = getGroupSecret(g)
            /\ getGroup(g)'.memberCount >= getGroup(g).memberCount
            /\ getGroup(g)'.messageCount >= getGroup(g).messageCount
      ]_vars

\* a group with two members has just received its first message, in a later
\* block than the one that created it
C15_Witness ==
    /\ call.op = "postMessage" /\ call.result = "ok"
    /\ getGroup(call.groupId).memberCount = 2
    /\ getGroup(call.groupId).messageCount = 1
    /\ getGroup(call.groupId).createdAt < now

\* C16: the number of messages of every group is its messageCount field, and
\* across every step each stored message keeps its index and its content:
\* the sequence only grows at the end.
C16_MessagesAppendOnly ==
    /\ [](\A g \in GroupIds :
            validGroup(g) => getMessageCount(g) = getGroup(g).messageCount)
    /\ [][\A g \in GroupIds :
            validGroup(g) =>
                /\ getMessageCount(g)' >= getMessageCount(g)
                /\ \A i \in 0 .. getMessageCount(g) - 1 :
                        getMessage(g, i)' = getMessage(g, i)
          ]_vars

\* a group holds two messages, posted in different blocks
C16_Witness ==
    \E g \in GroupIds :
        /\ validGroup(g) /\ getMessageCount(g) = 2
        /\ getMessage(g, 0).timestamp < getMessage(g, 1).timestamp

IsPrefix(s, t) == Len(s) <= Len(t) /\ SubSeq(t, 1, Len(s)) = s

\* C17: for every group, listMembers holds nobody twice, holds exactly those
\* for whom isMember is true, is as long as memberCount (at least 1) and
\* starts with the creator; across every step the old list is a prefix of
\* the new one.
C17_MembershipViewsAgree ==
    /\ [](\A g \in GroupIds :
            validGroup(g) =>
                /\ NoDuplicates(listMembers(g))
                /\ {listMembers(g)[i] : i \in 1 .. Len(listMembers(g))}
                        = {X \in Users : isMember(g, X)}
                /\ Len(listMembers(g)) = getGroup(g).memberCount
                /\ getGroup(g).memberCount >= 1
                /\ listMembers(g)[1] = getGroup(g).creator)
    /\ [][\A g \in GroupIds :
            validGroup(g) => IsPrefix(listMembers(g), listMembers(g)')]_vars

\* bob created the second group and alice has just joined it
C17_Witness ==
    /\ call.op = "joinGroup" /\ call.result = "ok" /\ call.groupId = 1
    /\ listMembers(1) = <<"bob", "alice">>

\* C18: a successful joinGroup(g) by X finds g existing and X not a member,
\* and in that one step makes X a member, raises memberCount by exactly one,
\* appends X to listMembers(g) and adds X to the ACL of g's secret.  Every
\* member is therefore on the ACL, and the service never answers a member's
\* recovery request with Unauthorized.
C18_JoinAuthorizes ==
    /\ [][\A g \in GroupIds, X \in Users :
            (/\ call'.op = "joinGroup" /\ call'.result = "ok"
             /\ call'.groupId = g /\ call'.sender = X) =>
                /\ validGroup(g) /\ ~isMember(g, X)
                /\ isMember(g, X)'
                /\ getGroup(g)'.memberCount = getGroup(g).memberCount + 1
                /\ listMembers(g)' = Append(listMembers(g), X)
                /\ acl'[getGroupSecret(g)] = acl[getGroupSecret(g)] \cup {X}
                /\ aclAllows(getGroupSecret(g), X)'
          ]_vars
    /\ [](\A g \in GroupIds, X \in Users :
            (validGroup(g) /\ isMember(g, X)) => aclAllows(getGroupSecret(g), X))
    /\ [][\A req \in requests :
            (requests' = requests \ {req} /\ isMember(req.groupId, req.user)) =>
                call'.result \in {"ok", "Unavailable", "Expired"}
          ]_vars

\* after a creation and a join, the joiner's recovery request has been
\* answered with the key
C18_Witness ==
    /\ call.op = "decryptKey" /\ call.result = "ok"
    /\ Len(events) = 2 /\ events[2] = <<"MemberJoined", call.groupId, call.sender>>
    /\ requests = {}
    /\ call.key = plain[getGroupSecret(call.groupId)]

IndexOutOfRange == "Invalid message index"

\* C13: a call of a view function leaves the ledger as it was.  A view
\* function that takes a groupId reverts with NotFound when the id is not
\* below getGroupCount() and, getMessage apart, returns otherwise;
\* getGroupCount always returns; getMessage(g, i) on an existing group
\* reverts with IndexOutOfRange exactly when i >= getMessageCount(g) and
\* returns for every smaller i.
C13_ReadsArePure ==
    [][read' # read =>
        /\ ledger' = ledger
        /\ read'.op \in ReadOps
        /\ read'.op = "getGroupCount" => read'.result = "ok"
        /\ \A g \in GroupIds :
            (read'.op # "getGroupCount" /\ read'.groupId = g) =>
                /\ g >= getGroupCount => read'.result = NotFound
                /\ (g < getGroupCount /\ read'.op # "getMessage") => read'.result = "ok"
                /\ (g < getGroupCount /\ read'.op = "getMessage") =>
                        /\ read'.result = IndexOutOfRange <=>
                                read'.index >= getMessageCount(g)
                        /\ read'.index < getMessageCount(g) => read'.result = "ok"
      ]_vars

\* getMessage has just been called with the count of a group that holds a
\* message
C13_Witness ==
    /\ read.op = "getMessage" /\ read.result = IndexOutOfRange
    /\ validGroup(read.groupId)
    /\ read.index = getMessageCount(read.groupId) /\ read.index >= 1

KeyNotRecovered == "Decrypt the group key before sending."

\* C11: when the client holds no key for the selected group (or no group is
\* selected), sendMessage goes no further than setting the status line: no
\* message is enciphered, no transaction reaches the ledger, the ledger and
\* the rest of the client are as before.  With a group selected, a text
\* typed and a valid contract address, the status is KeyNotRecovered.
C11_SendNeedsKey ==
    [][\A m \in Drafts :
        (/\ sendMessage(m, now)
         /\ (selectedGroupId = NoGroup \/ decryptedKeys[selectedGroupId] = NoKey)) =>
            /\ ledger' = ledger /\ call' = call /\ now' = now
            /\ cipher' = cipher
            /\ UNCHANGED <<recovery, decryptedKeys, busy, pending, console>>
            /\ status' \in {"Select a group first.", "Type a message to send.",
                             "Enter the deployed contract address first.",
                             KeyNotRecovered}
            /\ (/\ selectedGroupId # NoGroup /\ trim(m) # <<>>
                /\ targetAddress # NoAddress) => status' = KeyNotRecovered
      ]_vars

\* a member of the selected group, who has not recovered its key, has been
\* refused a send
C11_Witness ==
    /\ status = KeyNotRecovered
    /\ selectedGroupId # NoGroup /\ decryptedKeys[selectedGroupId] = NoKey
    /\ isMember(selectedGroupId, address)
    /\ phase = "idle" /\ getMessageCount(selectedGroupId) = 0

\* C19: whenever sendMessage enciphers a message for the selected group on
\* behalf of the connected account, the key it uses is one the service
\* disclosed to that account for that group.
C19_KeyOfConnectedIdentity ==
    [][\A m \in Drafts :
        (sendMessage(m, now) /\ sendMessageError(m) = "ok") =>
            [user |-> address, groupId |-> selectedGroupId, key |-> keyIn'] \in disclosed
      ]_vars

\* C20: when a recovery of the client fails (Unauthorized, Unavailable or
\* Expired), the ledger with its ACLs is unchanged, no key is stored and
\* nothing is disclosed, the client is idle again with nothing pending, and
\* the service holds nothing of the request.  An idle client with a valid
\* contract address can always issue a request again, and a pending request
\* of somebody on the ACL can be answered with the key.
C20_FailedRecoveryIsLocal ==
    /\ [][\A req \in pending, outcome \in {"answer", "Unavailable", "Expired"} :
            (clientDecryptKeySettled(req, outcome) /\ call'.result # "ok") =>
                /\ call'.result \in {"Unauthorized", "Unavailable", "Expired"}
                /\ ledger' = ledger
                /\ decryptedKeys' = decryptedKeys
                /\ disclosed' = disclosed
                /\ busy' = FALSE /\ pending' = {}
                /\ req \notin requests'
          ]_vars
    /\ []((pending = {} /\ targetAddress # NoAddress) =>
            \A g \in GroupIds : validGroup(g) => ENABLED clientDecryptKey(g))
    /\ [](\A req \in pending :
            aclAllows(req.handle, req.user) =>
                ENABLED (clientDecryptKeySettled(req, "answer") /\ call'.result = "ok"))

\* after a failed recovery, the creator of the only group has recovered its
\* key through the client
C20_Witness ==
    /\ console = <<"Decrypt failed">>
    /\ call.op = "decryptKey" /\ call.result = "ok" /\ call.sender = address
    /\ Len(events) = 1 /\ getGroup(0).creator = address
    /\ decryptedKeys[0] = plain[getGroupSecret(0)]
    /\ ~busy /\ pending = {}

\* what the ledger holds about group g
GroupState(g) ==
    <<getGroup(g), groupMembers[g], listMembers(g), groupMessages[g],
      acl[getGroupSecret(g)], plain[getGroupSecret(g)]>>

\* C25: a joinGroup or postMessage on group g, whether it succeeds or fails,
\* leaves everything about every other group as it was, and a createGroup
\* leaves every existing group as it was.  Two groups never share a secret
\* handle, a post to a group succeeds only for a member of that very group,
\* and only members of that very group are on the ACL of its secret.
C25_GroupsAreSeparate ==
    /\ [][\A g \in GroupIds :
            validGroup(g) =>
                \/ call'.op \in {"joinGroup", "postMessage"} /\ call'.groupId = g
                \/ GroupState(g)' = GroupState(g)
          ]_vars
    /\ [][\A g \in GroupIds :
            (/\ call'.op = "postMessage" /\ call'.result = "ok" /\ call'.groupId = g
             /\ vars' # vars) => isMember(g, call'.sender)
          ]_vars
    /\ [](\A g1, g2 \in GroupIds :
            (validGroup(g1) /\ validGroup(g2) /\ g1 # g2) =>
                getGroupSecret(g1) # getGroupSecret(g2))
    /\ [](\A g \in GroupIds, X \in Users :
            (validGroup(g) /\ aclAllows(getGroupSecret(g), X)) => isMember(g, X))

\* somebody has just joined the second group, while the first still has its
\* creator as only member, who is not a member of the second
C25_Witness ==
    /\ call.op = "joinGroup" /\ call.result = "ok" /\ call.groupId = 1
    /\ getGroup(0).memberCount = 1 /\ getGroup(1).memberCount = 2
    /\ acl[getGroupSecret(0)] # acl[getGroupSecret(1)]

\* C27: a secret below 1_000_000 has a zero first key byte, so in the cipher
\* text every byte at an offset that is a multiple of four is the plaintext
\* byte itself; under the secret 0 the cipher text is the plain hex of the
\* message's UTF-8 bytes.
C27_FirstKeyByteIsZero ==
    (phase = "encoded" /\ U32Less(keyIn, SECRET_BOUND)) =>
        LET msgBytes == TextEncode(msgIn) IN
        /\ keyBytes(keyIn)[1] = 0
        /\ Len(cipherOut) = 2 * Len(msgBytes)
        /\ \A i \in 1 .. Len(msgBytes) :
               (i - 1) % 4 = 0 =>
                   parseInt16(SubSeq(cipherOut, (2 * i) - 1, 2 * i)) = msgBytes[i]
        /\ keyIn = <<0, 0>> => cipherOut = bufferToHex(msgBytes)

\* a message of at least five bytes enciphered under 123456: the bytes at
\* offsets 0 and 4 are in the clear, others are not
C27_Witness ==
    /\ phase = "encoded" /\ keyIn = <<1, 57920>>
    /\ Len(TextEncode(msgIn)) >= 5
    /\ cipherOut # bufferToHex(TextEncode(msgIn))

\* C28: the test suite's xorEncrypt gives the cipher text encodeMessage gives,
\* for every message and every 32-bit key, and its xorDecrypt gives on that
\* cipher text the text decodeMessage gives.
C28_TestHelpersAgree ==
    /\ phase \in {"encoded", "decoded"} => xorEncrypt(msgIn, keyIn) = cipherOut
    /\ phase = "decoded" => xorDecrypt(cipherOut, keyIn) = clearOut

\* a message of five bytes or more went through both under the key 2^32 - 1
C28_Witness ==
    /\ phase = "decoded" /\ keyIn = <<65535, 65535>>
    /\ Len(cipherOut) >= 10 /\ clearOut = msgIn

\* C23: the reduction modulo 1_000_000 sends the same number of 32-bit values
\* to every residue: any two secrets minted have equally many 32-bit values
\* that reduce to them.
C23_UniformSecret ==
    \A g1, g2 \in GroupIds :
        (validGroup(g1) /\ validGroup(g2)) =>
            Cardinality(Preimages(plain[getGroupSecret(g1)]))
                = Cardinality(Preimages(plain[getGroupSecret(g2)]))

\* C21: what the client shows after a failed recovery tells Unauthorized from
\* Unavailable and from Expired, and the outcome of a failed join or post
\* tells which precondition was violated: NotFound, AlreadyMember, Forbidden
\* or an empty cipher text.
C21_FailuresToldApart ==
    /\ [][\A req \in pending, outcome \in {"answer", "Unavailable", "Expired"} :
            (clientDecryptKeySettled(req, outcome) /\ call'.result = "Unauthorized") =>
                status' \notin {decryptStatus("Unavailable"), decryptStatus("Expired")}
          ]_vars
    /\ [][(call'.op \in {"joinGroup", "postMessage"} /\ call'.result # "ok"
              /\ vars' # vars) =>
            /\ call'.result = NotFound <=> ~validGroup(call'.groupId)
            /\ call'.result = AlreadyMember <=>
                   (/\ call'.op = "joinGroup" /\ validGroup(call'.groupId)
                    /\ isMember(call'.groupId, call'.sender))
            /\ call'.result = Forbidden <=>
                   (/\ call'.op = "postMessage" /\ validGroup(call'.groupId)
                    /\ ~isMember(call'.groupId, call'.sender))
          ]_vars

\* C22: recoveries in flight together are independent.  Each request carries
\* its own key pair and the start of its own validity window; when one
\* completes, the other stays in flight untouched, the key is recorded under
\* the group of the completed request and the keys of all other groups stay
\* as they were; a failed attempt records nothing and erases nothing.  So
\* every key the service has disclosed to the client is recorded under its
\* group, whatever the order of the completions.
C22_RecoveriesAreIndependent ==
    /\ [](\A r1, r2 \in pending : r1.keypair = r2.keypair => r1 = r2)
    /\ [](pending \subseteq requests)
    /\ [][\A groupId \in GroupIds :
            clientDecryptKey(groupId) =>
                \E req \in pending' \ pending :
                    /\ req.groupId = groupId /\ req.startTimestamp = now
                    /\ \A other \in pending : other.keypair # req.keypair
          ]_vars
    /\ [][\A req \in pending, outcome \in {"answer", "Unavailable", "Expired"} :
            clientDecryptKeySettled(req, outcome) =>
                /\ pending' = pending \ {req}
                /\ requests' = requests \ {req}
                /\ \A g \in GroupIds \ {req.groupId} : decryptedKeys'[g] = decryptedKeys[g]
                /\ call'.result = "ok" => decryptedKeys'[req.groupId] = plain[req.handle]
                /\ call'.result # "ok" => decryptedKeys' = decryptedKeys
          ]_vars
    /\ [](\A d \in disclosed : decryptedKeys[d.groupId] = d.key)

\* a recovery started while another was in flight is still awaited, and the
\* other has meanwhile recorded the key of the other group
C22_Witness ==
    \E req \in pending :
        /\ pending = {req} /\ req.keypair = 1 /\ req.groupId = 0
        /\ validGroup(1)
        /\ decryptedKeys[1] = plain[getGroupSecret(1)]
        /\ decryptedKeys[0] = NoKey

\* what a list on display shows of the ledger's messages
Stored(items) ==
    [i \in 1 .. Len(items) |->
        [sender |-> items[i].sender, cipherText |-> items[i].cipherText,
         timestamp |-> items[i].timestamp]]

\* C26: whenever no loadMessages call is in flight, the list on display is
\* empty if no group is selected, and otherwise is the message sequence of
\* the selected group as some load has read it (the sequence, or a prefix of
\* it when messages have been posted since), never the list of another group.
C26_DisplayedListIsSelected ==
    loads = {} =>
        IF selectedGroupId = NoGroup THEN messages = <<>>
        ELSE IsPrefix(Stored(messages), groupMessages[selectedGroupId])

\* C24: a load made without the key puts the messages of its group on
\* display as cipher text, with no clear text and no error; and once the key
\* of the selected group is recovered and no load is in flight, every
\* message on display carries its deciphered text, whatever the order in
\* which the loads have completed.
C24_LoadsFollowRecovery ==
    /\ [][\A load \in loads :
            (loadMessagesDone(load) /\ load.clearKey = NoKey) =>
                /\ Stored(messages') = groupMessages[load.groupId]
                /\ \A i \in 1 .. Len(messages') : messages'[i].clearText = Undefined
                /\ status' = status /\ console' = console
          ]_vars
    /\ []((/\ selectedGroupId # NoGroup
           /\ decryptedKeys[selectedGroupId] # NoKey
           /\ loads = {}) =>
            \A i \in 1 .. Len(messages) :
                messages[i].clearText
                    = decodeMessage(messages[i].cipherText, decryptedKeys[selectedGroupId]))

\* C29: a sendMessage that has passed its early returns and whose
\* transaction fails leaves the composer, the recovered keys, the ledger and
\* the message list as they were and clears busy; one whose transaction
\* succeeds has appended the enciphered text to the selected group, empties
\* the composer and starts a load of the selected group's messages.  The
\* composer never goes from a text to empty in a step that has not appended
\* that text, enciphered, to the ledger.
C29_SendKeepsOrDelivers ==
    /\ [][(sendMessage(newMessage, now) /\ sendMessageError(newMessage) = "ok") =>
            IF call'.result = "ok"
            THEN /\ groupMessages'[selectedGroupId]
                        = Append(groupMessages[selectedGroupId],
                                 [sender |-> address,
                                  cipherText |-> encodeMessage(newMessage,
                                                     decryptedKeys[selectedGroupId]),
                                  timestamp |-> now'])
                 /\ newMessage' = <<>>
                 /\ loadMessages(selectedGroupId, decryptedKeys) \subseteq loads'
                 /\ \E load \in loads' : load.groupId = selectedGroupId
            ELSE /\ newMessage' = newMessage
                 /\ decryptedKeys' = decryptedKeys
                 /\ busy' = FALSE
                 /\ ledger' = ledger
                 /\ UNCHANGED <<messages, loads, selectedGroupId>>
          ]_vars
    /\ [][(newMessage # <<>> /\ newMessage' = <<>>) =>
            \E g \in GroupIds :
                /\ Len(groupMessages'[g]) = Len(groupMessages[g]) + 1
                /\ groupMessages'[g][Len(groupMessages'[g])].cipherText
                       = encodeMessage(newMessage, decryptedKeys[g])
          ]_vars

\* the account that holds the key of the selected group is not a member of
\* it: its send has been rejected by the ledger, the text "A" is still in the
\* composer and the client is idle
C29_Witness ==
    /\ call.op = "postMessage" /\ call.result = Forbidden /\ call.sender = address
    /\ status = "Failed to send the message." /\ console = <<"Send failed">>
    /\ newMessage = <<65>> /\ ~busy
    /\ selectedGroupId # NoGroup /\ decryptedKeys[selectedGroupId] # NoKey
====
